---- MODULE Spec2Model ----
(***************************************************************************)
(* CCLI - Custom Command Line Interface.                                   *)
(*                                                                         *)
(* A model of the command pipeline of the repository: the tokenizer and    *)
(* the dispatcher of executor.py, the session state of environment.py,    *)
(* the command capabilities of commands.py that read or write that state, *)
(* and the input handlers of gui.py.  Python strings are TLA+ strings: a   *)
(* character of s is SubSeq(s, i, i).                                      *)
(***************************************************************************)
EXTENDS Integers, Sequences, FiniteSets, TLC

VARIABLES
    variables,        \* CCLIEnvironment.variables
    current_dir,      \* CCLIEnvironment.current_dir
    command_history,  \* CCLIEnvironment.command_history
    aliases,          \* CCLIEnvironment.aliases
    history_index,    \* CCLIGUI.history_index
    input_entry,      \* text of the CCLIGUI.input_entry widget
    closed,           \* the root window was destroyed (on_closing)
    call,             \* the last call of execute by handle_command: the
                      \* line typed, the line passed, the environment
                      \* passed and what execute did
    tk_line,          \* tokenizer harness: the input string
    tk_tokens,        \* tokenizer harness: the returned token list
    tk_done           \* tokenizer harness: tokenize has returned

vars == <<variables, current_dir, command_history, aliases, history_index,
          input_entry, closed, call, tk_line, tk_tokens, tk_done>>

envVars == <<variables, current_dir, command_history, aliases>>
guiVars == <<history_index, input_entry, closed, call>>
tkVars  == <<tk_line, tk_tokens, tk_done>>

(***************************************************************************)
(* Bounds of the model.                                                    *)
(***************************************************************************)
MaxHistory == 3     \* submissions recorded in command_history
MaxLen == 4         \* length of the strings given to the tokenizer harness

(***************************************************************************)
(* Strings.                                                                *)
(***************************************************************************)
Char(s, i) == SubSeq(s, i, i)

UpperChars == "ABCDEFGHIJKLMNOPQRSTUVWXYZ"
LowerChars == "abcdefghijklmnopqrstuvwxyz"

UpperSet == {Char(UpperChars, i) : i \in 1..Len(UpperChars)}
LowerOf ==
    [c \in UpperSet |->
        Char(LowerChars, CHOOSE k \in 1..Len(UpperChars) : Char(UpperChars, k) = c)]

\* str.lower() of one character
LowerChar(c) == IF c \in UpperSet THEN LowerOf[c] ELSE c

RECURSIVE lower(_)
\* str.lower()
lower(s) == IF s = "" THEN "" ELSE LowerChar(Char(s, 1)) \o lower(Tail(s))

\* the characters str.strip() removes
Whitespace == {" ", "\t"}

RECURSIVE lstrip(_)
lstrip(s) ==
    IF s # "" /\ Char(s, 1) \in Whitespace THEN lstrip(Tail(s)) ELSE s

RECURSIVE rstrip(_)
rstrip(s) ==
    IF s # "" /\ Char(s, Len(s)) \in Whitespace
    THEN rstrip(SubSeq(s, 1, Len(s) - 1))
    ELSE s

\* str.strip()
strip(s) == rstrip(lstrip(s))

RECURSIVE join(_, _)
\* sep.join(seq)
join(sep, seq) ==
    IF Len(seq) = 0 THEN ""
    ELSE IF Len(seq) = 1 THEN seq[1]
    ELSE seq[1] \o sep \o join(sep, Tail(seq))

\* needle in s
Contains(s, needle) ==
    \E i \in 1..(Len(s) - Len(needle) + 1) :
        SubSeq(s, i, i + Len(needle) - 1) = needle

\* s.startswith(prefix)
StartsWith(s, prefix) ==
    Len(s) >= Len(prefix) /\ SubSeq(s, 1, Len(prefix)) = prefix

(***************************************************************************)
(* CommandExecutor.tokenize (executor.py).                                 *)
(***************************************************************************)
TokInit == [tokens |-> <<>>, current |-> "", in_quotes |-> FALSE]

\* a tokenizer that keeps the quote character in the token
TokStep_keepQuote(st, char) ==
    IF char = "\""
    THEN [st EXCEPT !.in_quotes = ~@, !.current = @ \o char]
    ELSE IF char = " " /\ ~st.in_quotes
    THEN IF st.current # ""
         THEN [st EXCEPT !.tokens = Append(@, st.current), !.current = ""]
         ELSE st
    ELSE [st EXCEPT !.current = @ \o char]

\* a tokenizer that ends a token at every separator, empty or not
TokStep_emitEmpty(st, char) ==
    IF char = "\""
    THEN [st EXCEPT !.in_quotes = ~@]
    ELSE IF char = " " /\ ~st.in_quotes
    THEN [st EXCEPT !.tokens = Append(@, st.current), !.current = ""]
    ELSE [st EXCEPT !.current = @ \o char]

\* the body of the loop "for char in command_line"
TokStep(st, char) ==
    IF char = "\""
    THEN [st EXCEPT !.in_quotes = ~@]
    ELSE IF char = " " /\ ~st.in_quotes
    THEN IF st.current # ""
         THEN [st EXCEPT !.tokens = Append(@, st.current), !.current = ""]
         ELSE st
    ELSE [st EXCEPT !.current = @ \o char]

RECURSIVE TokScan(_, _, _)
TokScan(s, i, st) ==
    IF i > Len(s) THEN st ELSE TokScan(s, i + 1, TokStep(st, Char(s, i)))

tokenize(command_line) ==
    LET st == TokScan(command_line, 1, TokInit)
    IN  IF st.current # "" THEN Append(st.tokens, st.current) ELSE st.tokens

(***************************************************************************)
(* Python values.  None is the empty tuple and a string s is <<s>>, so     *)
(* that "result == 'CLEAR'" can be asked of either.  A dict is the         *)
(* sequence of its <<key, value>> pairs in insertion order.                *)
(***************************************************************************)
None == <<>>
Str(s) == <<s>>

DictHas(d, k) == \E i \in 1..Len(d) : d[i][1] = k
DictGet(d, k) == d[CHOOSE i \in 1..Len(d) : d[i][1] = k][2]
DictSet(d, k, v) ==
    IF DictHas(d, k)
    THEN [i \in 1..Len(d) |-> IF d[i][1] = k THEN <<k, v>> ELSE d[i]]
    ELSE Append(d, <<k, v>>)

\* one self.output(text, tag) call
Line(text, tag) == [text |-> text, tag |-> tag]

(***************************************************************************)
(* CCLIEnvironment (environment.py).  An environment is the record of its  *)
(* four fields.                                                            *)
(***************************************************************************)
StartDir == "/home/user"

EnvInit ==
    [variables       |-> <<(<<"PATH", "/usr/local/bin:/usr/bin:/bin">>)>>,
     current_dir     |-> StartDir,
     command_history |-> <<>>,
     aliases         |-> <<>>]

set_variable(env, name, value) ==
    [env EXCEPT !.variables = DictSet(@, name, value)]

get_variable(env, name) ==
    IF DictHas(env.variables, name) THEN DictGet(env.variables, name) ELSE ""

\* a history append that records the alias expansion in place of the alias
add_to_history_expanded(env, command) ==
    LET tokens == tokenize(command)
        line == IF Len(tokens) > 0 /\ DictHas(env.aliases, lower(tokens[1]))
                THEN DictGet(env.aliases, lower(tokens[1])) \o " "
                         \o join(" ", Tail(tokens))
                ELSE command
    IN  [env EXCEPT !.command_history = Append(@, line)]

\* a history that keeps the newest line only
add_to_history_newest(env, command) ==
    [env EXCEPT !.command_history = <<command>>]

add_to_history(env, command) ==
    [env EXCEPT !.command_history = Append(@, command)]

get_last_command(env) ==
    IF Len(env.command_history) > 0
    THEN env.command_history[Len(env.command_history)]
    ELSE ""

set_alias(env, name, command) ==
    [env EXCEPT !.aliases = DictSet(@, name, command)]

get_alias(env, name) ==
    IF DictHas(env.aliases, name) THEN Str(DictGet(env.aliases, name)) ELSE None

(***************************************************************************)
(* Commands (commands.py).  A capability takes the argument list, the      *)
(* environment and ext, the answer of the operating system to the calls    *)
(* the capability makes ("ok": they succeed, "fail": they raise OSError).  *)
(* It yields the environment it leaves, the lines it has emitted, and      *)
(* either its return value or the exception that escapes it.               *)
(***************************************************************************)
ExtOutcomes == {"ok", "fail"}

OSErrorMsg == "[Errno 2] No such file or directory"

Ret(env, emitted, result) ==
    [raised |-> FALSE, msg |-> "", env |-> env, emitted |-> emitted,
     result |-> result]

Raise(env, emitted, msg) ==
    [raised |-> TRUE, msg |-> msg, env |-> env, emitted |-> emitted,
     result |-> None]

\* the first line of help_text stands for the whole constant text
help_text == "Available Commands:\n"

Cmd_help(args, env, ext) == Ret(env, <<Line(help_text, "info")>>, None)

Cmd_echo(args, env, ext) ==
    Ret(env, <<Line(join(" ", args) \o "\n", "output")>>, None)

RECURSIVE lstripChar(_, _)
lstripChar(s, c) ==
    IF s # "" /\ Char(s, 1) = c THEN lstripChar(Tail(s), c) ELSE s

RECURSIVE rstripChar(_, _)
rstripChar(s, c) ==
    IF s # "" /\ Char(s, Len(s)) = c
    THEN rstripChar(SubSeq(s, 1, Len(s) - 1), c)
    ELSE s

\* os.path.abspath(path) and os.getcwd() after os.chdir(path), from cwd
AbsPath(cwd, path) ==
    IF StartsWith(path, "/") THEN path ELSE cwd \o "/" \o path

Cmd_cd(args, env, ext) ==
    IF Len(args) = 0
    THEN Ret(env, <<Line("Usage: cd DIRECTORY\n", "error")>>, None)
    ELSE LET path == rstripChar(lstripChar(join(" ", args), "\""), "\"")
         IN  IF ext = "ok"
             THEN LET cwd == AbsPath(env.current_dir, path)
                  IN  Ret([env EXCEPT !.current_dir = cwd],
                          <<Line("Changed directory to: " \o cwd \o "\n",
                                 "success")>>, None)
             ELSE Ret(env, <<Line("cd: directory does not exist: " \o path
                                  \o "\n", "error")>>, None)

\* os.getcwd() is not guarded: it raises when the directory is gone
Cmd_pwd(args, env, ext) ==
    IF ext = "ok"
    THEN Ret(env, <<Line(env.current_dir \o "\n", "output")>>, None)
    ELSE Raise(env, <<>>, OSErrorMsg)

\* print_tree catches PermissionError alone: any other OSError of
\* os.listdir escapes after the first line was emitted
Cmd_tree(args, env, ext) ==
    LET path == IF Len(args) > 0 THEN args[1] ELSE "."
        first == Line(AbsPath(env.current_dir, path) \o "\n", "output")
    IN  IF ext = "ok"
        THEN Ret(env, <<first>>, None)
        ELSE Raise(env, <<first>>, OSErrorMsg)

Cmd_history(args, env, ext) ==
    IF Len(env.command_history) = 0
    THEN Ret(env, <<Line("No command history available.\n", "info")>>, None)
    ELSE Ret(env,
             [i \in 1..Len(env.command_history) |->
                 Line(ToString(i) \o ": " \o env.command_history[i] \o "\n",
                      "output")],
             None)

Cmd_last(args, env, ext) ==
    LET last_cmd == get_last_command(env)
    IN  IF last_cmd # "" /\ last_cmd # "last"
        THEN Ret(env, <<Line("Executing: " \o last_cmd \o "\n", "info")>>,
                 Str(last_cmd))
        ELSE Ret(env, <<Line("No previous command to execute.\n", "info")>>,
                 None)

\* a clear that signals nothing
Cmd_clear_noSignal(args, env, ext) == Ret(env, <<>>, None)

Cmd_clear(args, env, ext) == Ret(env, <<>>, Str("CLEAR"))

Cmd_env(args, env, ext) ==
    IF Len(args) = 0
    THEN Ret(env,
             [i \in 1..Len(env.variables) |->
                 Line(env.variables[i][1] \o "=" \o env.variables[i][2]
                      \o "\n", "output")],
             None)
    ELSE IF Len(args) = 1
    THEN LET value == get_variable(env, args[1])
         IN  IF value # ""
             THEN Ret(env, <<Line(args[1] \o "=" \o value \o "\n", "output")>>,
                      None)
             ELSE Ret(env, <<Line("Variable not set: " \o args[1] \o "\n",
                                  "info")>>, None)
    ELSE LET value == join(" ", Tail(args))
         IN  Ret(set_variable(env, args[1], value),
                 <<Line("Variable set: " \o args[1] \o "=" \o value \o "\n",
                        "success")>>, None)

Cmd_alias(args, env, ext) ==
    IF Len(args) = 0
    THEN IF Len(env.aliases) > 0
         THEN Ret(env,
                  [i \in 1..Len(env.aliases) |->
                      Line(env.aliases[i][1] \o "='" \o env.aliases[i][2]
                           \o "'\n", "output")],
                  None)
         ELSE Ret(env, <<Line("No aliases defined\n", "info")>>, None)
    ELSE IF Len(args) = 1
    THEN LET command == get_alias(env, args[1])
         IN  IF command # None /\ command # Str("")
             THEN Ret(env, <<Line(args[1] \o "='" \o command[1] \o "'\n",
                                  "output")>>, None)
             ELSE Ret(env, <<Line("Alias not found: " \o args[1] \o "\n",
                                  "info")>>, None)
    ELSE LET name == args[1]
             command == join(" ", Tail(args))
         IN  Ret(set_alias(env, name, command),
                 <<Line("Alias created: " \o name \o "='" \o command \o "'\n",
                        "success")>>, None)

\* date: datetime.now() formatted; the clock's text is outside the model
Cmd_date(args, env, ext) == Ret(env, <<Line("<now>\n", "output")>>, None)

(***************************************************************************)
(* The remaining capabilities work on files and the host alone.  Each      *)
(* checks its argument count, then runs inside "try ... except Exception"  *)
(* and reports a failure itself; none touches the environment.  The text   *)
(* read from the file system is outside the model.                         *)
(***************************************************************************)
GuardedCaps ==
    {"ls", "mkdir", "rmdir", "touch", "rm", "rename", "read", "write",
     "head", "tail", "copy", "find", "size", "wc", "grep", "append",
     "replace", "whoami", "uname", "calc", "sleep", "diff", "cmp"}

\* the least number of arguments the capability accepts
MinArgs(cap) ==
    IF cap \in {"ls", "find", "whoami", "uname"} THEN 0
    ELSE IF cap \in {"rename", "write", "copy", "grep", "append", "diff",
                     "cmp"} THEN 2
    ELSE IF cap = "replace" THEN 3
    ELSE 1

Cmd_guarded(cap, args, env, ext) ==
    IF Len(args) < MinArgs(cap)
    THEN Ret(env, <<Line("Usage: " \o cap \o "\n", "error")>>, None)
    ELSE IF ext = "ok"
    THEN Ret(env, <<Line("<" \o cap \o ">\n", "output")>>, None)
    ELSE Ret(env, <<Line(cap \o ": " \o OSErrorMsg \o "\n", "error")>>, None)

Invoke(cap, args, env, ext) ==
    CASE cap = "help"    -> Cmd_help(args, env, ext)
      [] cap = "echo"    -> Cmd_echo(args, env, ext)
      [] cap = "cd"      -> Cmd_cd(args, env, ext)
      [] cap = "pwd"     -> Cmd_pwd(args, env, ext)
      [] cap = "tree"    -> Cmd_tree(args, env, ext)
      [] cap = "date"    -> Cmd_date(args, env, ext)
      [] cap = "history" -> Cmd_history(args, env, ext)
      [] cap = "last"    -> Cmd_last(args, env, ext)
      [] cap = "clear"   -> Cmd_clear(args, env, ext)
      [] cap = "env"     -> Cmd_env(args, env, ext)
      [] cap = "alias"   -> Cmd_alias(args, env, ext)
      [] OTHER           -> Cmd_guarded(cap, args, env, ext)

(***************************************************************************)
(* CommandExecutor.execute (executor.py).                                  *)
(***************************************************************************)
\* command_map: command name -> capability
command_map ==
    << <<"help", "help">>, <<"echo", "echo">>, <<"cd", "cd">>,
       <<"pwd", "pwd">>, <<"ls", "ls">>, <<"dir", "ls">>,
       <<"mkdir", "mkdir">>, <<"rmdir", "rmdir">>, <<"touch", "touch">>,
       <<"rm", "rm">>, <<"del", "rm">>, <<"rename", "rename">>,
       <<"mv", "rename">>, <<"read", "read">>, <<"cat", "read">>,
       <<"type", "read">>, <<"write", "write">>, <<"head", "head">>,
       <<"tail", "tail">>, <<"tree", "tree">>, <<"date", "date">>,
       <<"history", "history">>, <<"last", "last">>, <<"clear", "clear">>,
       <<"cls", "clear">>, <<"cp", "copy">>, <<"copy", "copy">>,
       <<"find", "find">>, <<"search", "find">>, <<"size", "size">>,
       <<"wc", "wc">>, <<"grep", "grep">>, <<"append", "append">>,
       <<"replace", "replace">>, <<"env", "env">>, <<"whoami", "whoami">>,
       <<"uname", "uname">>, <<"calc", "calc">>, <<"sleep", "sleep">>,
       <<"alias", "alias">>, <<"diff", "diff">>, <<"cmp", "cmp">> >>

IndexErrorMsg == "list index out of range"

\* an alias check that looks the expansion's head up once more
Resolve_again(tokens, als) ==
    LET cmd == lower(tokens[1])
        args == Tail(tokens)
    IN  IF DictHas(als, cmd)
        THEN LET command_line == DictGet(als, cmd) \o " " \o join(" ", args)
                 tokens2 == tokenize(command_line)
             IN  IF Len(tokens2) = 0
                 THEN [raised |-> TRUE, cmd |-> cmd, args |-> args,
                       substitutions |-> 1]
                 ELSE IF DictHas(als, lower(tokens2[1]))
                 THEN LET line3 == DictGet(als, lower(tokens2[1])) \o " "
                                       \o join(" ", Tail(tokens2))
                          tokens3 == tokenize(line3)
                      IN  IF Len(tokens3) = 0
                          THEN [raised |-> TRUE, cmd |-> cmd, args |-> args,
                                substitutions |-> 2]
                          ELSE [raised |-> FALSE, cmd |-> lower(tokens3[1]),
                                args |-> Tail(tokens3), substitutions |-> 2]
                 ELSE [raised |-> FALSE, cmd |-> lower(tokens2[1]),
                       args |-> Tail(tokens2), substitutions |-> 1]
        ELSE [raised |-> FALSE, cmd |-> cmd, args |-> args,
              substitutions |-> 0]

\* lines 26-35: the head and the arguments, and the check for an alias.
\* tokens[0] of an empty token list raises IndexError.
Resolve(tokens, als) ==
    LET cmd == lower(tokens[1])
        args == Tail(tokens)
    IN  IF DictHas(als, cmd)
        THEN LET command_line == DictGet(als, cmd) \o " " \o join(" ", args)
                 tokens2 == tokenize(command_line)
             IN  IF Len(tokens2) = 0
                 THEN [raised |-> TRUE, cmd |-> cmd, args |-> args,
                       substitutions |-> 1]
                 ELSE [raised |-> FALSE, cmd |-> lower(tokens2[1]),
                       args |-> Tail(tokens2), substitutions |-> 1]
        ELSE [raised |-> FALSE, cmd |-> cmd, args |-> args,
              substitutions |-> 0]

\* an unknown-command diagnostic that leaves the name out
UnknownCommand_noName(cmd) ==
    Line("Unknown command. Type 'help' for available commands.\n", "error")

\* line 91
UnknownCommand(cmd) ==
    Line("Unknown command: " \o cmd
         \o ". Type 'help' for available commands.\n", "error")

\* an exception handler that reports the fault as ordinary output
FaultLine_asOutput(msg) == Line("Error: " \o msg \o "\n", "output")

\* line 89
FaultLine(msg) == Line("Error: " \o msg \o "\n", "error")

\* an early return that reports the empty line
Nothing_reported(env) ==
    [outcome |-> "returned", exc |-> "", fault |-> None, result |-> None,
     invoked |-> FALSE,
     cap |-> "", cmd |-> "", args |-> <<>>, substitutions |-> 0,
     emitted |-> <<Line("Unknown command: . Type 'help' for available commands.\n", "error")>>,
     env |-> env]

\* what execute gives back without having looked at any token
Nothing(env) ==
    [outcome |-> "returned", exc |-> "", fault |-> None, result |-> None,
     invoked |-> FALSE,
     cap |-> "", cmd |-> "", args |-> <<>>, substitutions |-> 0,
     emitted |-> <<>>, env |-> env]

\* a dispatch that forgets the value the capability returned
Completed_noResult(found, c) ==
    [found EXCEPT !.env = c.env, !.emitted = c.emitted]

\* lines 86-87: the capability's value is what execute returns
Completed(found, c) ==
    [found EXCEPT !.env = c.env, !.emitted = c.emitted, !.result = c.result]

execute(command_line, env, ext) ==
    IF strip(command_line) = "" THEN Nothing(env)
    ELSE LET tokens == tokenize(command_line)
    IN  IF Len(tokens) = 0 THEN Nothing(env)
    ELSE LET r == Resolve(tokens, env.aliases)
             found == [Nothing(env) EXCEPT !.cmd = r.cmd, !.args = r.args,
                           !.substitutions = r.substitutions]
    IN  IF r.raised
        THEN [found EXCEPT !.outcome = "raised", !.exc = IndexErrorMsg]
        ELSE IF DictHas(command_map, r.cmd)
        THEN LET cap == DictGet(command_map, r.cmd)
                 c == Invoke(cap, r.args, env, ext)
             IN  IF c.raised
                 THEN [found EXCEPT !.invoked = TRUE, !.cap = cap,
                           !.fault = Str(c.msg), !.env = c.env,
                           !.emitted = Append(c.emitted, FaultLine(c.msg))]
                 ELSE Completed([found EXCEPT !.invoked = TRUE, !.cap = cap], c)
        ELSE [found EXCEPT !.emitted = <<UnknownCommand(r.cmd)>>]

(***************************************************************************)
(* CCLIGUI (gui.py).                                                       *)
(***************************************************************************)
\* the environment object the handlers work on
Env ==
    [variables |-> variables, current_dir |-> current_dir,
     command_history |-> command_history, aliases |-> aliases]

SetEnv(env) ==
    /\ variables' = env.variables
    /\ current_dir' = env.current_dir
    /\ command_history' = env.command_history
    /\ aliases' = env.aliases

\* before the first call of execute
NoCall ==
    [typed |-> "", called |-> FALSE, line |-> "", pre |-> EnvInit,
     x |-> Nothing(EnvInit)]

\* the lines a user types into the entry
InputLines ==
    {"   ", "cls x", " tree d ", "Foo x", "env V 1", "LAST",
     "alias ll echo hi", "ll \"a b\"", "alias LL pwd", "LL",
     "alias e \" \"", "e", "alias a ll", "a", "last", "clear", "exit",
     "CLEAR"}

\* the capabilities that ask the operating system
OsCaps == {"cd", "pwd", "tree"} \cup GuardedCaps

\* the answers the operating system can give while command_line runs
ExtFor(command_line, env) ==
    LET x == execute(command_line, env, "ok")
    IN  IF x.invoked /\ x.cap \in OsCaps THEN ExtOutcomes ELSE {"ok"}

\* a test for the clear command that distinguishes letter case
IsClear_asTyped(command) == command \in {"clear", "cls"}

\* line 152
IsClear(command) == lower(command) \in {"clear", "cls"}

\* The output area (display_output, output_text.delete, display_welcome)
\* is a widget outside the session state: the handler's writes to it are
\* left out, what execute emits is kept in call.
handle_command(raw) ==
    /\ ~closed
    /\ Len(command_history) < MaxHistory
    /\ input_entry' = ""
    /\ UNCHANGED tkVars
    /\ LET command == strip(raw)
           lowered == lower(command)
       IN  IF command = ""
           THEN UNCHANGED <<envVars, history_index, closed, call>>
           ELSE IF lowered = "exit"
           THEN /\ closed' = TRUE
                /\ UNCHANGED <<envVars, history_index, call>>
           ELSE IF IsClear(command)
           THEN UNCHANGED <<envVars, history_index, closed, call>>
           ELSE LET replay == IF lowered = "last"
                              THEN Cmd_last(<<>>, Env, "ok")
                              ELSE Ret(Env, <<>>, None)
                    line == IF replay.result # None /\ replay.result # Str("")
                            THEN replay.result[1]
                            ELSE command
                    env1 == add_to_history(Env, line)
                IN  \E ext \in ExtFor(line, env1) :
                        LET x == execute(line, env1, ext)
                        IN  /\ SetEnv(x.env)
                            /\ history_index' = Len(env1.command_history)
                            /\ call' = [typed |-> raw, called |-> TRUE,
                                        line |-> line, pre |-> env1, x |-> x]
                            /\ UNCHANGED closed

\* a move-older step that shows the entry under the old cursor
history_up_stale ==
    /\ ~closed
    /\ UNCHANGED <<envVars, closed, call, tkVars>>
    /\ IF history_index > 0
       THEN /\ history_index' = history_index - 1
            /\ input_entry' =
                   IF history_index < Len(command_history)
                   THEN command_history[history_index + 1]
                   ELSE command_history[history_index]
       ELSE UNCHANGED <<history_index, input_entry>>

history_up ==
    /\ ~closed
    /\ UNCHANGED <<envVars, closed, call, tkVars>>
    /\ IF history_index > 0
       THEN /\ history_index' = history_index - 1
            /\ input_entry' = command_history[history_index' + 1]
       ELSE UNCHANGED <<history_index, input_entry>>

\* a move-newer step that does not stop one past the last entry
history_down_unclamped ==
    /\ ~closed
    /\ UNCHANGED <<envVars, closed, call, tkVars>>
    /\ history_index' = history_index + 1
    /\ input_entry' =
           IF history_index + 1 < Len(command_history)
           THEN command_history[history_index + 2]
           ELSE ""

history_down ==
    /\ ~closed
    /\ UNCHANGED <<envVars, closed, call, tkVars>>
    /\ IF history_index < Len(command_history) - 1
       THEN /\ history_index' = history_index + 1
            /\ input_entry' = command_history[history_index' + 1]
       ELSE /\ history_index' = Len(command_history)
            /\ input_entry' = ""

Submit == \E raw \in InputLines \cup {input_entry} : handle_command(raw)

Init ==
    /\ variables = EnvInit.variables
    /\ current_dir = EnvInit.current_dir
    /\ command_history = EnvInit.command_history
    /\ aliases = EnvInit.aliases
    /\ history_index = -1
    /\ input_entry = ""
    /\ closed = FALSE
    /\ call = NoCall
    /\ tk_line = ""
    /\ tk_tokens = <<>>
    /\ tk_done = FALSE

Next == Submit \/ history_up \/ history_down

Spec == Init /\ [][Next]_vars

(***************************************************************************)
(* The tokenizer on its own: every string of at most MaxLen characters     *)
(* over Alphabet is tokenized once.                                        *)
(***************************************************************************)
Alphabet == {"a", " ", "\"", "\t"}

RECURSIVE Strings(_)
Strings(n) ==
    IF n = 0 THEN {""}
    ELSE LET S == Strings(n - 1)
         IN  S \cup {s \o c : s \in S, c \in Alphabet}

TokInitState ==
    /\ variables = EnvInit.variables
    /\ current_dir = EnvInit.current_dir
    /\ command_history = EnvInit.command_history
    /\ aliases = EnvInit.aliases
    /\ history_index = -1
    /\ input_entry = ""
    /\ closed = FALSE
    /\ call = NoCall
    /\ tk_line \in Strings(MaxLen)
    /\ tk_tokens = <<>>
    /\ tk_done = FALSE

Tokenize ==
    /\ ~tk_done
    /\ tk_tokens' = tokenize(tk_line)
    /\ tk_done' = TRUE
    /\ UNCHANGED <<envVars, guiVars, tk_line>>

TokNext == Tokenize

TokSpec == TokInitState /\ [][TokNext]_vars

(***************************************************************************)
(* execute applied once to a line, in an environment with some aliases.    *)
(***************************************************************************)
ExecLines ==
    Strings(MaxLen) \cup {"clear", "CLS", "cls x", "c", "c x", "echo CLEAR"}

\* alias tables that `alias c clear` and `alias a cls` leave behind
ExecAliases ==
    {<<>>, << <<"c", "clear">> >>, << <<"a", "cls">> >>}

ExecInit ==
    /\ variables = EnvInit.variables
    /\ current_dir = EnvInit.current_dir
    /\ command_history = EnvInit.command_history
    /\ aliases \in ExecAliases
    /\ history_index = -1
    /\ input_entry = ""
    /\ closed = FALSE
    /\ call = NoCall
    /\ tk_line \in ExecLines
    /\ tk_tokens = <<>>
    /\ tk_done = FALSE

Execute ==
    /\ ~call.called
    /\ \E ext \in ExtFor(tk_line, Env) :
           LET x == execute(tk_line, Env, ext)
           IN  /\ SetEnv(x.env)
               /\ call' = [typed |-> tk_line, called |-> TRUE,
                           line |-> tk_line, pre |-> Env, x |-> x]
    /\ UNCHANGED <<history_index, input_entry, closed, tkVars>>

ExecNext == Execute

ExecSpec == ExecInit /\ [][ExecNext]_vars

(***************************************************************************)
(* Properties of the tokenizer, under TokSpec.                             *)
(***************************************************************************)
Quote == "\""

Chars(s) == {Char(s, i) : i \in 1..Len(s)}

\* the number of quote characters before position i of s
QuotesBefore(s, i) == Cardinality({j \in 1..(i - 1) : Char(s, j) = Quote})

\* no space of s lies inside a quoted region
NoQuotedSpace(s) ==
    \A i \in 1..Len(s) : Char(s, i) = " " => QuotesBefore(s, i) % 2 = 0

\* C4: tokenize returns no empty token and no token that holds a
\* double-quote character, whatever the input string.
C4_TokensClean ==
    tk_done =>
        \A i \in 1..Len(tk_tokens) :
            tk_tokens[i] # "" /\ Quote \notin Chars(tk_tokens[i])

\* C4 witness: an input with quotes and spaces was cut into two tokens,
\* one of them holding a quoted space.
C4_Witness ==
    /\ tk_done
    /\ Quote \in Chars(tk_line)
    /\ Len(tk_tokens) = 2
    /\ \E i \in 1..2 : " " \in Chars(tk_tokens[i])

\* C5 as stated: an input made only of whitespace characters and
\* double-quote characters, in any arrangement, gives no token.
C5_Original ==
    (tk_done /\ Chars(tk_line) \subseteq Whitespace \cup {Quote})
        => tk_tokens = <<>>

\* C5 amended: an input made only of space characters and double-quote
\* characters in which no space lies inside a quoted region gives no token.
C5_SpacesAndQuotes ==
    (tk_done /\ Chars(tk_line) \subseteq {" ", Quote} /\ NoQuotedSpace(tk_line))
        => tk_tokens = <<>>

\* C5 witness: an input that mixes spaces and quotes, no space quoted, was
\* tokenized to nothing.
C5_Witness ==
    /\ tk_done
    /\ Chars(tk_line) = {" ", Quote}
    /\ NoQuotedSpace(tk_line)
    /\ tk_tokens = <<>>

(***************************************************************************)
(* Properties of execute and handle_command, under Spec.  call holds the   *)
(* last call of execute: call.line was passed with the environment         *)
(* call.pre, and call.x is what execute did.                               *)
(***************************************************************************)
\* the tokens of the line passed to execute, and its head token as typed
CallTokens == tokenize(call.line)
CallHead == CallTokens[1]

\* execute went past its two early returns
Parsed == call.called /\ Len(CallTokens) > 0

\* the positions of the error-tagged lines among the emitted lines
ErrorLines(emitted) == {i \in 1..Len(emitted) : emitted[i].tag = "error"}

\* execute left the environment as it found it
EnvUntouched == call.x.env = call.pre

\* the line execute re-tokenizes for the alias stored under key
Expansion(key) ==
    DictGet(call.pre.aliases, key) \o " " \o join(" ", Tail(CallTokens))

\* C1: execute returns normally for every line submitted, whatever aliases
\* were defined before: no exception escapes it.
C1_ExecuteReturns == call.called => call.x.outcome = "returned"

\* C2: when the capability execute invokes raises, execute emits exactly
\* one error-tagged line, "Error: <fault message>", returns None and does
\* not propagate the fault.
C2_FaultContained ==
    (call.called /\ call.x.fault # None) =>
        /\ call.x.outcome = "returned"
        /\ call.x.result = None
        /\ \E i \in 1..Len(call.x.emitted) :
              /\ ErrorLines(call.x.emitted) = {i}
              /\ call.x.emitted[i].text
                     = "Error: " \o call.x.fault[1] \o "\n"

\* C2 witness: a capability raised after it had emitted a line of its own.
C2_Witness ==
    /\ call.called
    /\ call.x.invoked
    /\ call.x.fault # None
    /\ Len(call.x.emitted) = 2

\* C3 as stated: a head token that is neither a registered command name
\* nor an alias key gives exactly one error-tagged line that contains the
\* head token as typed, no signal, and an unchanged environment.
C3_Original ==
    (/\ Parsed
     /\ ~DictHas(command_map, CallHead)
     /\ ~DictHas(call.pre.aliases, CallHead)) =>
        /\ Len(call.x.emitted) = 1
        /\ call.x.emitted[1].tag = "error"
        /\ Contains(call.x.emitted[1].text, CallHead)
        /\ call.x.outcome = "returned"
        /\ call.x.result = None
        /\ EnvUntouched

\* C3 amended: a head token whose lower-case form is neither a registered
\* command name nor an alias key gives exactly one error-tagged line that
\* contains the head token in lower case, no signal, and an unchanged
\* environment.
C3_UnknownCommand ==
    (/\ Parsed
     /\ ~DictHas(command_map, lower(CallHead))
     /\ ~DictHas(call.pre.aliases, lower(CallHead))) =>
        /\ Len(call.x.emitted) = 1
        /\ call.x.emitted[1].tag = "error"
        /\ Contains(call.x.emitted[1].text, lower(CallHead))
        /\ call.x.outcome = "returned"
        /\ call.x.result = None
        /\ ~call.x.invoked
        /\ EnvUntouched

\* C3 witness: a head token typed with an upper-case letter was reported
\* as unknown while the alias table held an alias.
C3_Witness ==
    /\ Parsed
    /\ CallHead # lower(CallHead)
    /\ ~DictHas(command_map, lower(CallHead))
    /\ ~DictHas(call.pre.aliases, lower(CallHead))
    /\ Len(call.pre.aliases) > 0
    /\ Len(call.x.emitted) = 1

\* C6: when the head token is an alias key, execute dispatches the head
\* and the tail of tokenize(expansion + " " + join(remainingArgs, " ")).
C6_AliasRetokenized ==
    (Parsed /\ DictHas(call.pre.aliases, CallHead)) =>
        LET t == tokenize(Expansion(CallHead))
        IN  /\ call.x.outcome = "returned"
            /\ Len(t) > 0
            /\ call.x.cmd = lower(t[1])
            /\ call.x.args = Tail(t)

\* C7: for an alias n with expansion e and an argument text r, quoted
\* arguments included, execute(n + " " + r) dispatches the command and the
\* arguments that execute(e + " " + r) dispatches.
C7_AliasAsTyped ==
    \A i \in 1..Len(call.pre.aliases) :
        LET n == call.pre.aliases[i][1]
            e == call.pre.aliases[i][2]
        IN  (call.called /\ StartsWith(call.line, n \o " ")) =>
                LET r == SubSeq(call.line, Len(n) + 2, Len(call.line))
                    fresh == execute(e \o " " \o r, call.pre, "ok")
                IN  /\ call.x.cmd = fresh.cmd
                    /\ call.x.args = fresh.args

\* C8: the alias table is searched for the head token exactly as typed,
\* so a head token that is an alias key is resolved through that alias.
C8_AliasKeyAsTyped ==
    (Parsed /\ DictHas(call.pre.aliases, CallHead)) =>
        call.x.substitutions = 1

\* C9: execute substitutes an alias at most once, and an alias whose
\* expansion begins with another alias name that is no registered command
\* ends in the unknown-command diagnostic for that name.
C9_SinglePass ==
    call.called =>
        /\ call.x.substitutions <= 1
        /\ (Len(CallTokens) > 0 /\ DictHas(call.pre.aliases, lower(CallHead))) =>
              LET t == tokenize(Expansion(lower(CallHead)))
              IN  (/\ Len(t) > 0
                   /\ DictHas(call.pre.aliases, lower(t[1]))
                   /\ ~DictHas(command_map, lower(t[1]))) =>
                      /\ call.x.substitutions = 1
                      /\ call.x.outcome = "returned"
                      /\ ~call.x.invoked
                      /\ call.x.cmd = lower(t[1])
                      /\ call.x.emitted = <<UnknownCommand(lower(t[1]))>>
                      /\ StartsWith(call.x.emitted[1].text,
                                    "Unknown command: " \o lower(t[1]))

\* C9 witness: an alias that expands to the name of another alias, itself
\* defined with a registered command, was typed and reported as unknown.
C9_Witness ==
    /\ Parsed
    /\ DictHas(call.pre.aliases, lower(CallHead))
    /\ LET t == tokenize(Expansion(lower(CallHead)))
       IN  /\ Len(t) > 0
           /\ lower(t[1]) # lower(CallHead)
           /\ DictHas(call.pre.aliases, lower(t[1]))
           /\ ~DictHas(command_map, lower(t[1]))
           /\ DictHas(command_map,
                      lower(tokenize(DictGet(call.pre.aliases, lower(t[1])))[1]))
    /\ ~call.x.invoked
    /\ Len(call.x.emitted) = 1

\* the entry handle_command appended for the last call, and the one before
LastEntry == call.pre.command_history[Len(call.pre.command_history)]
EntryBefore ==
    IF Len(call.pre.command_history) > 1
    THEN call.pre.command_history[Len(call.pre.command_history) - 1]
    ELSE ""

\* C10 as stated: the entry appended for a submission is the line the user
\* typed (surrounding blanks aside); nothing else is put in its place.
C10_Original == call.called => LastEntry = strip(call.typed)

\* C10 amended: the entry appended is the typed line without its
\* surrounding whitespace, except when that line is "last" in any letter
\* case and the newest entry of a non-empty history is not "last": the
\* entry appended is then a copy of that newest entry.
C10_HistoryEntry ==
    call.called =>
        LastEntry =
            IF /\ lower(strip(call.typed)) = "last"
               /\ EntryBefore # ""
               /\ EntryBefore # "last"
            THEN EntryBefore
            ELSE strip(call.typed)

\* C10 witness: an alias name typed with an argument was appended as
\* typed while execute expanded it, after an earlier submission of "last"
\* had been appended as a copy of the entry before it.
C10_Witness ==
    /\ call.called
    /\ call.x.substitutions = 1
    /\ call.x.invoked
    /\ Len(Tail(CallTokens)) > 0
    /\ LastEntry = strip(call.typed)
    /\ Len(call.pre.command_history) = 3
    /\ call.pre.command_history[2] = call.pre.command_history[1]

(***************************************************************************)
(* Properties of the history navigation, under Spec.                       *)
(***************************************************************************)
\* command_history[i] of the code, whose indices start at 0
Entry(i) == command_history[i + 1]

\* handle_command has appended a line to command_history in this step
Recorded == Len(command_history') = Len(command_history) + 1

\* C11: a recorded submission leaves the cursor one past the newest entry,
\* and from there each move-older step shows the entry just older than the
\* cursor, newest to oldest; at the oldest entry (cursor 0) further steps
\* change neither the cursor nor the entry shown.
C11_OlderSteps ==
    [][/\ Recorded => history_index' = Len(command_history')
       /\ (history_up /\ history_index > 0) =>
              /\ history_index' = history_index - 1
              /\ input_entry' = Entry(history_index - 1)
       /\ (history_up /\ history_index = 0) =>
              /\ history_index' = 0
              /\ input_entry' = input_entry]_vars

\* C11 witness: after three recorded submissions the cursor has gone down
\* to the oldest entry, which is shown.
C11_Witness ==
    /\ Len(command_history) = 3
    /\ history_index = 0
    /\ input_entry = Entry(0)
    /\ Entry(0) # Entry(1)
    /\ Entry(1) # Entry(2)

\* the positions of command_history that the next move-older and the next
\* move-newer step read (gui.py reads command_history[history_index] after
\* moving the cursor)
ReadByUp == IF history_index > 0 THEN {history_index - 1} ELSE {}

ReadByDown ==
    IF history_index < Len(command_history) - 1 THEN {history_index + 1} ELSE {}

InRange(i) == 0 <= i /\ i < Len(command_history)

\* C12 as stated: the cursor is never below 0.
C12_Original ==
    0 <= history_index /\ history_index <= Len(command_history)

\* C12: the cursor stays in -1 .. len(command_history); it is -1 only while
\* the history is still empty (its value after construction), the input is
\* empty whenever the cursor is one past the last entry, and every position
\* a navigation step reads is in range.
C12_CursorRange ==
    /\ -1 <= history_index
    /\ history_index <= Len(command_history)
    /\ history_index = -1 => command_history = <<>>
    /\ history_index = Len(command_history) => input_entry = ""
    /\ \A i \in ReadByUp \cup ReadByDown : InRange(i)

\* C12 witness: a move-newer step on the still empty history has taken the
\* cursor from -1 to one past the last entry, which is 0.
C12_Witness ==
    /\ command_history = <<>>
    /\ history_index = 0
    /\ input_entry = ""
    /\ ReadByUp \cup ReadByDown = {}

(***************************************************************************)
(* Properties of one execute call, under ExecSpec.                         *)
(***************************************************************************)
ClearNames == {"clear", "cls"}

\* C13: when the command execute dispatches is clear or cls, typed or
\* reached through an alias, execute returns 'CLEAR', emits no line and
\* leaves the environment as it was.
C13_ClearSignal ==
    (call.called /\ call.x.outcome = "returned" /\ call.x.cmd \in ClearNames)
        => /\ call.x.invoked
           /\ call.x.result = Str("CLEAR")
           /\ call.x.emitted = <<>>
           /\ call.x.fault = None
           /\ EnvUntouched

\* C13 witness: cls was reached through the alias a and given an argument.
C13_Witness ==
    /\ call.called
    /\ call.line = "a a"
    /\ call.x.substitutions = 1
    /\ call.x.cmd = "cls"
    /\ call.x.args = <<"a">>
    /\ call.x.result = Str("CLEAR")

\* C14: a line that is empty after trimming, or whose tokens are none,
\* makes execute emit nothing, return nothing, invoke nothing and leave the
\* environment as it was.
C14_EmptyLine ==
    (call.called /\ (strip(call.line) = "" \/ tokenize(call.line) = <<>>))
        => /\ call.x.outcome = "returned"
           /\ call.x.result = None
           /\ call.x.emitted = <<>>
           /\ ~call.x.invoked
           /\ call.x.substitutions = 0
           /\ EnvUntouched

\* C14 witness: a line of quotes only is not empty after trimming and has
\* no token.
C14_Witness ==
    /\ call.called
    /\ call.line = "\"\""
    /\ strip(call.line) # ""
    /\ tokenize(call.line) = <<>>
    /\ aliases # <<>>
    /\ call.x = Nothing(Env)

(***************************************************************************)
(* Properties of the session, under Spec.                                  *)
(***************************************************************************)
IsPrefix(s, t) == Len(s) <= Len(t) /\ SubSeq(t, 1, Len(s)) = s

\* C15: command_history only grows at its end: over every step the old
\* history is a prefix of the new one, a navigation step leaves it as it
\* is, and the environment execute hands back has the history it was given.
C15_AppendOnly ==
    [][/\ IsPrefix(command_history, command_history')
       /\ (history_up \/ history_down) => command_history' = command_history
       /\ call'.called =>
              call'.x.env.command_history = call'.pre.command_history]_vars

\* C15 witness: three lines were recorded, the last one invoked a command,
\* and the cursor was then moved to the middle entry.
C15_Witness ==
    /\ Len(command_history) = 3
    /\ call.called
    /\ call.x.invoked
    /\ call.pre.command_history = command_history
    /\ history_index = 1
    /\ input_entry = Entry(1)
    /\ Entry(1) # Entry(2)

\* what the capability named cap gives back when it returns: only last and
\* clear return a value
ValueOf(cap, env) ==
    IF cap = "clear" THEN Str("CLEAR")
    ELSE IF cap = "last" /\ get_last_command(env) \notin {"", "last"}
    THEN Str(get_last_command(env))
    ELSE None

\* C16: an execute call invokes no capability or the one command_map names
\* for the resolved command, and returns that capability's value as it is;
\* a string that last returns is not run by execute: only the line of last
\* itself is emitted and the environment stays as it was.
C16_OneCapability ==
    call.called =>
        /\ call.x.invoked => /\ DictHas(command_map, call.x.cmd)
                             /\ call.x.cap = DictGet(command_map, call.x.cmd)
        /\ (call.x.invoked /\ call.x.fault = None) =>
               call.x.result = ValueOf(call.x.cap, call.pre)
        /\ (~call.x.invoked \/ call.x.fault # None) => call.x.result = None
        /\ (call.x.cap = "last" /\ call.x.result # None) =>
               /\ call.x.emitted =
                      <<Line("Executing: " \o call.x.result[1] \o "\n", "info")>>
               /\ EnvUntouched

\* C16 witness: last was dispatched after other lines and returned a string
\* to its caller.
C16_Witness ==
    /\ call.called
    /\ Len(command_history) = 3
    /\ call.x.cap = "last"
    /\ call.x.result = Str(LastEntry)
    /\ Len(call.x.emitted) = 1

\* the value Commands.last would return if it were called now
ReplayNow == Cmd_last(<<>>, Env, "ok").result

\* handle_command has put the string last returned in place of the typed line
Replayed == call.called /\ lower(strip(call.typed)) = "last"
                /\ call.line # strip(call.typed)

\* C17: execute returns 'CLEAR' only when the command it dispatched is clear
\* or cls; no entry of the history is the string 'CLEAR', so neither the
\* string last returns to execute or to handle_command, nor a line
\* handle_command replays, is equal to the clear signal.
C17_ClearUnambiguous ==
    /\ \A i \in 1..Len(command_history) : command_history[i] # "CLEAR"
    /\ ReplayNow # Str("CLEAR")
    /\ Replayed => call.line # "CLEAR"
    /\ call.called =>
           /\ call.x.result = Str("CLEAR") =>
                  (call.x.invoked /\ call.x.cmd \in ClearNames)
           /\ call.x.cap = "last" => call.x.result # Str("CLEAR")

\* C17 witness: CLEAR was typed and handled without execute, cls x
\* made execute return 'CLEAR', and last then replayed cls x, which
\* returned 'CLEAR' again as a clear command.
C17_Witness ==
    /\ Replayed
    /\ call.line = "cls x"
    /\ call.x.cmd = "cls"
    /\ call.x.result = Str("CLEAR")
    /\ Len(command_history) = 2
    /\ ReplayNow = Str("cls x")

\* the line s, given to execute with the alias table als, runs last
DispatchesLast(s, als) ==
    LET tokens == tokenize(s)
    IN  /\ strip(s) # ""
        /\ Len(tokens) > 0
        /\ LET r == Resolve(tokens, als)
           IN  /\ ~r.raised
               /\ DictHas(command_map, r.cmd)
               /\ DictGet(command_map, r.cmd) = "last"

\* C18: a string that Commands.last returns, to execute or to
\* handle_command, is never a line that runs last again.
C18_NoSelfReplay ==
    /\ (call.called /\ call.x.cap = "last" /\ call.x.result # None) =>
           ~DispatchesLast(call.x.result[1], call.pre.aliases)
    /\ ReplayNow # None => ~DispatchesLast(ReplayNow[1], aliases)

====
